---- MODULE Spec2Model ----
(***************************************************************************)
(* GoogleAppBuilderAPIWrapper (langchain/utilities/google_appbuilder_api): *)
(* run(query) = get_token -> requests.post -> json.loads -> per-result     *)
(* fetch_appbuilder_details -> join, truncate, wrap in the template.       *)
(*                                                                         *)
(* JSON / Python values are tagged pairs <<tag, payload>>:                 *)
(*   <<"str", s>>   a str              <<"num", n>>  an int                *)
(*   <<"null", 0>>  None               <<"list", <<v1, ..., vn>> >>        *)
(*   <<"dict", << <<k1, v1>>, ..., <<kn, vn>> >> >>  keys in insertion     *)
(*   order, pairwise distinct (json.loads keeps one entry per key).        *)
(* <<"raise", e>> is an exception in flight, <<"pending", 0>> no value.    *)
(* Python strs are TLA+ strings; the str leaves of the inputs hold no      *)
(* quote, backslash or control character, so repr(s) is s in quotes.       *)
(***************************************************************************)
EXTENDS Integers, Sequences, FiniteSets, TLC

VARIABLES pc, query, token, response, appbuilders, ret, log,
          nRun, nAuth, nPost, issued,
          faPc, faArg, faRet

vars == <<pc, query, token, response, appbuilders, ret, log,
          nRun, nAuth, nPost, issued, faPc, faArg, faRet>>

runVars == <<pc, query, token, response, appbuilders, ret, log,
             nRun, nAuth, nPost, issued>>

faVars == <<faPc, faArg, faRet>>

(* ---------------------------------------------------------------------- *)
(* Bounds of the model                                                    *)
(* ---------------------------------------------------------------------- *)
MaxResults == 3
MaxShort == 2
MaxCalls == 2
MaxWidth == 2
NestWidth == 1
LongLen == 600

(* ---------------------------------------------------------------------- *)
(* Program constants                                                      *)
(* ---------------------------------------------------------------------- *)
NumToReturn == 2
Offset == 0
MaxAnswerLen == 1024

NoResultsMessage ==
    "Google appbuilders did not find any appbuilders that match the description"

(* ---------------------------------------------------------------------- *)
(* Values                                                                 *)
(* ---------------------------------------------------------------------- *)
Str(s) == <<"str", s>>
Num(n) == <<"num", n>>
None == <<"null", 0>>
List(es) == <<"list", es>>
Dict(kvs) == <<"dict", kvs>>
Raise(e) == <<"raise", e>>
Pending == <<"pending", 0>>

IsStr(v) == v[1] = "str"
IsDict(v) == v[1] = "dict"
IsList(v) == v[1] = "list"
IsRaise(v) == v[1] = "raise"

(* s repeated n times, by doubling *)
RECURSIVE Rep(_, _)
Rep(s, n) ==
    IF n = 0 THEN ""
    ELSE LET h == Rep(s, n \div 2)
         IN  IF n % 2 = 0 THEN h \o h ELSE h \o h \o s

(* sep.join(ss) for a sequence ss of strs *)
RECURSIVE Join(_, _)
Join(sep, ss) ==
    IF Len(ss) = 0 THEN ""
    ELSE IF Len(ss) = 1 THEN ss[1]
    ELSE ss[1] \o sep \o Join(sep, Tail(ss))

(* sub in s *)
Contains(s, sub) ==
    \E i \in 1..(Len(s) - Len(sub) + 1) : SubSeq(s, i, i + Len(sub) - 1) = sub

Digit(d) == SubSeq("0123456789", d + 1, d + 1)

(* str(n) for an int n >= 0 *)
RECURSIVE IntToStr(_)
IntToStr(n) == IF n < 10 THEN Digit(n) ELSE IntToStr(n \div 10) \o Digit(n % 10)

(* d.get(key, default) on a dict value d *)
RECURSIVE GetItems(_, _, _)
GetItems(kvs, key, default) ==
    IF Len(kvs) = 0 THEN default
    ELSE IF kvs[1][1] = key THEN kvs[1][2]
    ELSE GetItems(Tail(kvs), key, default)

(* v.get(key, default): AttributeError unless v is a dict *)
Get(v, key, default) ==
    IF IsDict(v) THEN GetItems(v[2], key, default) ELSE Raise("AttributeError")

(* repr(v), which is also str(v) for every v that is not a str *)
RECURSIVE PyRepr(_)
PyRepr(v) ==
    CASE v[1] = "str"  -> "'" \o v[2] \o "'"
      [] v[1] = "num"  -> IntToStr(v[2])
      [] v[1] = "null" -> "None"
      [] v[1] = "list" ->
           "[" \o Join(", ", [i \in 1..Len(v[2]) |-> PyRepr(v[2][i])]) \o "]"
      [] v[1] = "dict" ->
           "{" \o Join(", ", [i \in 1..Len(v[2]) |->
                     "'" \o v[2][i][1] \o "': " \o PyRepr(v[2][i][2])]) \o "}"

(* f"{v}" *)
PyStr(v) == IF IsStr(v) THEN v[2] ELSE PyRepr(v)

(* ---------------------------------------------------------------------- *)
(* format_array                                                           *)
(* ---------------------------------------------------------------------- *)

RECURSIVE format_array(_)

(* the test for "http" left out *)
FormatPairNoHttpCheck(formatted_details, key, value) ==
    formatted_details \o " \n " \o key \o " : " \o PyStr(value)

(* the recursive call on a value that is not a str put back *)
FormatPairRecursing(formatted_details, key, value) ==
    IF IsStr(value)
    THEN IF Contains(value[2], "http")
         THEN formatted_details
         ELSE formatted_details \o " \n " \o key \o " : " \o value[2]
    ELSE formatted_details \o " \n " \o key \o " : " \o format_array(value)

(* one iteration of the loop over the keys of a dict *)
FormatPair(formatted_details, key, value) ==
    IF IsStr(value)
    THEN IF Contains(value[2], "http")
         THEN formatted_details
         ELSE formatted_details \o " \n " \o key \o " : " \o value[2]
    ELSE formatted_details \o " \n " \o key \o " : " \o PyStr(value)

RECURSIVE FormatItems(_, _)
FormatItems(formatted_details, kvs) ==
    IF Len(kvs) = 0 THEN formatted_details
    ELSE FormatItems(FormatPair(formatted_details, kvs[1][1], kvs[1][2]), Tail(kvs))

format_array(appbuilder_details) ==
    IF IsStr(appbuilder_details) THEN appbuilder_details[2]
    ELSE IF IsDict(appbuilder_details) THEN FormatItems("", appbuilder_details[2])
    ELSE IF IsList(appbuilder_details)
         THEN Join(", ", [i \in 1..Len(appbuilder_details[2]) |->
                             format_array(appbuilder_details[2][i])])
    ELSE ""

(* ---------------------------------------------------------------------- *)
(* format_appbuilder_details, fetch_appbuilder_details                    *)
(* ---------------------------------------------------------------------- *)

(* title and body joined by a bare newline *)
FormatDetailsTryBareNewline(appbuilder_details) ==
    LET title == Get(appbuilder_details, "title", Str(""))
    IN  IF IsRaise(title) THEN title
        ELSE IF ~IsStr(title) THEN Raise("TypeError")
        ELSE Str(title[2] \o "\n" \o format_array(appbuilder_details))

(* the body of the try block of format_appbuilder_details *)
FormatDetailsTry(appbuilder_details) ==
    LET title == Get(appbuilder_details, "title", Str(""))
    IN  IF IsRaise(title) THEN title
        ELSE IF ~IsStr(title) THEN Raise("TypeError")
        ELSE Str(title[2] \o " \n " \o format_array(appbuilder_details))

format_appbuilder_details(appbuilder_details) ==
    LET r == FormatDetailsTry(appbuilder_details)
    IN  IF IsRaise(r) THEN None ELSE r

(* the two get calls without their default {} *)
FetchDetailsTryNoDefault(prediction) ==
    LET document == Get(prediction, "document", None)
    IN  IF IsRaise(document) THEN document
        ELSE LET derivedStructData == Get(document, "derivedStructData", None)
             IN  IF IsRaise(derivedStructData) THEN derivedStructData
                 ELSE format_appbuilder_details(derivedStructData)

(* the body of the try block of fetch_appbuilder_details *)
FetchDetailsTry(prediction) ==
    LET document == Get(prediction, "document", Dict(<<>>))
    IN  IF IsRaise(document) THEN document
        ELSE LET derivedStructData == Get(document, "derivedStructData", Dict(<<>>))
             IN  IF IsRaise(derivedStructData) THEN derivedStructData
                 ELSE format_appbuilder_details(derivedStructData)

(* the try block without its except clause *)
FetchDetailsNoHandler(prediction) == FetchDetailsTry(prediction)

fetch_appbuilder_details(prediction) ==
    LET r == FetchDetailsTry(prediction)
    IN  IF IsRaise(r) THEN None ELSE r

(* ---------------------------------------------------------------------- *)
(* run                                                                    *)
(* ---------------------------------------------------------------------- *)

TemplateHead ==
    "\n" \o Rep(" ", 16) \o "thought: I have find: " \o "\n" \o Rep(" ", 16)

TemplateTail ==
    "\n" \o Rep(" ", 16) \o "action: summarize answer and provide url link "
         \o "\n" \o Rep(" ", 16) \o "action_input:  "

Template(answer) == TemplateHead \o answer \o TemplateTail

(* id == i: the builtin function id is equal to no int *)
IdEqualsI(i) == FALSE

(* search_results[id == i]: a bool used as an index is 0 or 1 *)
Subscript(search_results, i) ==
    LET idx == IF IdEqualsI(i) THEN 1 ELSE 0
    IN  CASE IsList(search_results) ->
               IF idx < Len(search_results[2]) THEN search_results[2][idx + 1]
               ELSE Raise("IndexError")
          [] IsStr(search_results) ->
               IF idx < Len(search_results[2])
               THEN Str(SubSeq(search_results[2], idx + 1, idx + 1))
               ELSE Raise("IndexError")
          [] IsDict(search_results) -> Raise("KeyError")
          [] OTHER -> Raise("TypeError")

(* len(search_results) *)
PyLen(v) ==
    IF IsList(v) \/ IsDict(v) \/ IsStr(v) THEN Len(v[2]) ELSE -1

(* the for loop of run from counter i on: the list appbuilders it leaves,  *)
(* or the exception that ends it                                           *)
RECURSIVE Loop(_, _, _, _)
Loop(search_results, i, num_to_return, acc) ==
    IF i >= num_to_return THEN List(acc)
    ELSE LET result == Subscript(search_results, i)
         IN  IF IsRaise(result) THEN result
             ELSE LET details == fetch_appbuilder_details(result)
                  IN  IF IsRaise(details) THEN details
                      ELSE Loop(search_results, i + 1, num_to_return,
                                IF details # None THEN Append(acc, details[2])
                                ELSE acc)

(* "\n".join(f"{i+1}. {item}" for i, item in enumerate(appbuilders)) *)
Numbered(items) == [i \in 1..Len(items) |-> IntToStr(i) \o ". " \o items[i]]

JoinedAnswer(items) == Join("\n", Numbered(items))

(* the check on len(answer) left out *)
TruncateNever(answer) == answer

Truncate(answer) ==
    IF Len(answer) > MaxAnswerLen THEN SubSeq(answer, 1, MaxAnswerLen) ELSE answer

(* run from the for loop to its return, on a search_results of length     *)
(* num_to_return > 0                                                       *)
RunNonEmpty(search_results, num_to_return) ==
    LET r == Loop(search_results, 0, num_to_return, <<>>)
    IN  IF IsRaise(r)
        THEN [ret |-> r, appbuilders |-> <<>>]
        ELSE [ret |-> Str(Template(Truncate(JoinedAnswer(r[2])))),
              appbuilders |-> r[2]]

(* the check num_to_return == 0 left out *)
RunOnResultsNoEmptyCheck(search_results) ==
    LET num_to_return == PyLen(search_results)
    IN  IF num_to_return < 0
        THEN [ret |-> Raise("TypeError"), appbuilders |-> <<>>]
        ELSE RunNonEmpty(search_results, num_to_return)

(* run from len(search_results) to its return *)
RunOnResults(search_results) ==
    LET num_to_return == PyLen(search_results)
    IN  IF num_to_return < 0
        THEN [ret |-> Raise("TypeError"), appbuilders |-> <<>>]
        ELSE IF num_to_return = 0
        THEN [ret |-> Str(NoResultsMessage), appbuilders |-> <<>>]
        ELSE RunNonEmpty(search_results, num_to_return)

(* run from json.loads(response.text) to its return, on the body resp of   *)
(* the HTTP response: the value returned or the exception raised, and the  *)
(* list appbuilders                                                        *)
RunTail(resp) ==
    IF resp[1] = "notjson"
    THEN [ret |-> Raise("JSONDecodeError"), appbuilders |-> <<>>]
    ELSE LET search_results == Get(resp, "results", Dict(<<>>))
         IN  IF IsRaise(search_results)
             THEN [ret |-> search_results, appbuilders |-> <<>>]
             ELSE RunOnResults(search_results)

(* ---------------------------------------------------------------------- *)
(* Inputs                                                                 *)
(* ---------------------------------------------------------------------- *)
NotJson == <<"notjson", 0>>

Queries == {"weather", ""}

Record(derivedStructData) ==
    Dict(<< <<"document", Dict(<< <<"derivedStructData", derivedStructData>> >>)>> >>)

WeatherRecord ==
    Record(Dict(<< <<"title", Str("Weather API")>>, <<"desc", Str("hot")>> >>))

MapsRecord ==
    Record(Dict(<< <<"title", Str("Maps API")>>,
                  <<"link", Str("http://maps")>>,
                  <<"tags", List(<<Str("geo"), Str("http://t")>>)>>,
                  <<"meta", Dict(<< <<"rank", Num(12)>>, <<"owner", None>> >>)>> >>))

LongRecord == Record(Dict(<< <<"title", Str(Rep("x", LongLen))>> >>))

NoDerivedRecord == Dict(<< <<"document", Dict(<< <<"id", Str("d3")>> >>)>> >>)

NoDocumentRecord == Dict(<< <<"id", Str("r4")>> >>)

(* records with the expected keys and a str title, or lacking a key *)
WellFormedRecords == {WeatherRecord, MapsRecord, LongRecord}

LackingRecords == {NoDerivedRecord, NoDocumentRecord}

(* records of the wrong shape *)
MalformedRecords ==
    { Str("oops"),
      Dict(<< <<"document", Str("doc")>> >>),
      Record(List(<<Str("a")>>)),
      Record(Dict(<< <<"title", Num(7)>>, <<"desc", Str("hot")>> >>)) }

Records == WellFormedRecords \cup LackingRecords \cup MalformedRecords

(* the records of the result lists of up to MaxResults records; every      *)
(* record of Records occurs in the lists of up to MaxShort records         *)
CoreRecords == {WeatherRecord, LongRecord, NoDerivedRecord, Str("oops")}

SeqsUpTo(S, n) == UNION {[1..k -> S] : k \in 0..n}

Responses ==
    { Dict(<< <<"results", List(rs)>> >>) :
         rs \in SeqsUpTo(CoreRecords, MaxResults) \cup SeqsUpTo(Records, MaxShort) }
    \cup { NotJson,
           Dict(<<>>),
           Dict(<< <<"error", Str("denied")>> >>),
           List(<<>>),
           Dict(<< <<"results", None>> >>),
           Dict(<< <<"results", Str("ab")>> >>),
           Dict(<< <<"results", Dict(<< <<"a", Str("b")>> >>)>> >>) }

Keys == {"title", "desc"}

Leaves == {Str("hot"), Str("http://a"), Num(42), None}

NestedLeaves == {Str("hot"), Str("http://a"), Num(42)}

(* the sequences of up to n pairwise distinct keys *)
KeySeqs(n) ==
    {ks \in SeqsUpTo(Keys, n) : \A i, j \in 1..Len(ks) : i # j => ks[i] # ks[j]}

DictsOver(S, n) ==
    UNION {{Dict([i \in 1..Len(ks) |-> <<ks[i], vs[i]>>]) : vs \in [1..Len(ks) -> S]} :
              ks \in KeySeqs(n)}

ListsOver(S, n) == {List(es) : es \in SeqsUpTo(S, n)}

Nested == DictsOver(NestedLeaves, NestWidth) \cup ListsOver(NestedLeaves, NestWidth)

Values ==
    Leaves \cup DictsOver(Leaves \cup Nested, MaxWidth)
           \cup ListsOver(Leaves \cup Nested, MaxWidth)

(* ---------------------------------------------------------------------- *)
(* The calls of run                                                       *)
(* ---------------------------------------------------------------------- *)
(* what run did to the outside in the current call: the call made, how it   *)
(* ended ("ok" or "error"), the token got or sent, and the POST body        *)
Event(kind, outcome, tok, q, page_size, offset) ==
    [kind |-> kind, outcome |-> outcome, token |-> tok,
     query |-> q, page_size |-> page_size, offset |-> offset]

Init ==
    /\ pc = "idle"
    /\ query = ""
    /\ token = 0
    /\ response = Pending
    /\ appbuilders = <<>>
    /\ ret = Pending
    /\ log = <<>>
    /\ nRun = 0
    /\ nAuth = 0
    /\ nPost = 0
    /\ issued = 0
    /\ faPc = "off"
    /\ faArg = None
    /\ faRet = ""

(* a caller enters run(query); the locals of the call are fresh *)
Call(q) ==
    /\ pc \in {"idle", "done", "failed"}
    /\ nRun < MaxCalls
    /\ pc' = "get_token"
    /\ query' = q
    /\ token' = 0
    /\ response' = Pending
    /\ appbuilders' = <<>>
    /\ ret' = Pending
    /\ log' = <<>>
    /\ nRun' = nRun + 1
    /\ UNCHANGED <<nAuth, nPost, issued, faVars>>

(* a token kept from an earlier call is returned without a refresh *)
GetTokenCached ==
    /\ pc = "get_token"
    /\ IF issued > 0
       THEN /\ token' = issued
            /\ UNCHANGED <<issued, nAuth, log>>
       ELSE /\ issued' = issued + 1
            /\ token' = issued + 1
            /\ nAuth' = nAuth + 1
            /\ log' = Append(log, Event("auth", "ok", issued + 1, "", "", 0))
    /\ pc' = "post"
    /\ UNCHANGED <<query, response, appbuilders, ret, nRun, nPost, faVars>>

(* get_token returns: the credentials were refreshed and hold a new token *)
GetTokenOk ==
    /\ pc = "get_token"
    /\ issued' = issued + 1
    /\ token' = issued + 1
    /\ nAuth' = nAuth + 1
    /\ log' = Append(log, Event("auth", "ok", issued + 1, "", "", 0))
    /\ pc' = "post"
    /\ UNCHANGED <<query, response, appbuilders, ret, nRun, nPost, faVars>>

(* the failure is swallowed and run goes on without a token *)
GetTokenFailSwallowed ==
    /\ pc = "get_token"
    /\ nAuth' = nAuth + 1
    /\ log' = Append(log, Event("auth", "error", 0, "", "", 0))
    /\ pc' = "post"
    /\ UNCHANGED <<query, token, response, appbuilders, ret, nRun, nPost, issued, faVars>>

(* google.auth.default() or creds.refresh raises; run has no handler *)
GetTokenFail ==
    /\ pc = "get_token"
    /\ nAuth' = nAuth + 1
    /\ log' = Append(log, Event("auth", "error", 0, "", "", 0))
    /\ ret' = Raise("AuthError")
    /\ pc' = "failed"
    /\ UNCHANGED <<query, token, response, appbuilders, nRun, nPost, issued, faVars>>

PostEvent(outcome) ==
    Event("post", outcome, token, query, IntToStr(NumToReturn), Offset)

(* requests.post returns a response whose text is resp *)
PostOk(resp) ==
    /\ pc = "post"
    /\ response' = resp
    /\ nPost' = nPost + 1
    /\ log' = Append(log, PostEvent("ok"))
    /\ pc' = "format"
    /\ UNCHANGED <<query, token, appbuilders, ret, nRun, nAuth, issued, faVars>>

(* requests.post raises; run has no handler *)
PostFail ==
    /\ pc = "post"
    /\ nPost' = nPost + 1
    /\ log' = Append(log, PostEvent("error"))
    /\ ret' = Raise("ConnectionError")
    /\ pc' = "failed"
    /\ UNCHANGED <<query, token, response, appbuilders, nRun, nAuth, issued, faVars>>

(* json.loads(response.text) to the return of run *)
Format ==
    /\ pc = "format"
    /\ LET r == RunTail(response)
       IN  /\ ret' = r.ret
           /\ appbuilders' = r.appbuilders
           /\ pc' = IF IsRaise(r.ret) THEN "failed" ELSE "done"
    /\ UNCHANGED <<query, token, response, log, nRun, nAuth, nPost, issued, faVars>>

Next ==
    \/ \E q \in Queries : Call(q)
    \/ GetTokenOk
    \/ GetTokenFail
    \/ \E resp \in Responses : PostOk(resp)
    \/ PostFail
    \/ Format

Spec == Init /\ [][Next]_vars

(* ---------------------------------------------------------------------- *)
(* Direct calls of format_array                                           *)
(* ---------------------------------------------------------------------- *)
InitFlatten ==
    /\ pc = "idle"
    /\ query = ""
    /\ token = 0
    /\ response = Pending
    /\ appbuilders = <<>>
    /\ ret = Pending
    /\ log = <<>>
    /\ nRun = 0
    /\ nAuth = 0
    /\ nPost = 0
    /\ issued = 0
    /\ faPc = "call"
    /\ faArg \in Values
    /\ faRet = ""

FormatArrayCall ==
    /\ faPc = "call"
    /\ faRet' = format_array(faArg)
    /\ faPc' = "return"
    /\ UNCHANGED <<faArg, runVars>>

NextFlatten == FormatArrayCall

SpecFlatten == InitFlatten /\ [][NextFlatten]_vars

(* ---------------------------------------------------------------------- *)
(* Properties of run                                                      *)
(* ---------------------------------------------------------------------- *)

(* the results of the response of the current call *)
Results == Get(response, "results", Dict(<<>>))

(* the backend returned a non-empty result list *)
NonEmptyResults ==
    /\ IsDict(response)
    /\ IsList(Results)
    /\ Len(Results[2]) > 0

(* the backend returned an empty result list, or no results key *)
EmptyResults ==
    /\ IsDict(response)
    /\ \/ Results = List(<<>>)
       \/ \A i \in 1..Len(response[2]) : response[2][i][1] # "results"

Returned == pc = "done"

(* the text between the head and the tail of the template in the string    *)
(* run returned                                                            *)
EmbeddedAnswer ==
    SubSeq(ret[2], Len(TemplateHead) + 1, Len(ret[2]) - Len(TemplateTail))

IsPrefix(a, b) == Len(a) <= Len(b) /\ SubSeq(b, 1, Len(a)) = a

(* C1, as stated: for every non-empty result list and every query, the     *)
(* string returned by run is at most 1024 characters long.                 *)
C1_ReturnedAtMost1024 ==
    (Returned /\ NonEmptyResults) => Len(ret[2]) <= 1024

(* C1, amended: for every non-empty result list and every query, the       *)
(* joined answer that run embeds in the template is a prefix of the joined *)
(* entries of at most 1024 characters; the returned string is the template *)
(* around it, so it is at most 1024 + 151 characters long.                 *)
C1_AnswerAtMost1024 ==
    (Returned /\ NonEmptyResults) =>
        /\ Len(ret[2]) >= Len(TemplateHead) + Len(TemplateTail)
        /\ ret[2] = TemplateHead \o EmbeddedAnswer \o TemplateTail
        /\ Len(EmbeddedAnswer) <= 1024
        /\ IsPrefix(EmbeddedAnswer, JoinedAnswer(appbuilders))
        /\ Len(ret[2]) <= 1024 + 151

(* a call returned a string whose joined entries were cut to 1024 *)
C1_Witness ==
    /\ Returned
    /\ NonEmptyResults
    /\ Len(JoinedAnswer(appbuilders)) > 1024
    /\ Len(EmbeddedAnswer) = 1024
    /\ Len(ret[2]) = 1024 + 151

(* the record lacks document.derivedStructData *)
LacksDerived(record) ==
    /\ IsDict(record)
    /\ LET document == Get(record, "document", None)
       IN  \/ document = None
           \/ /\ IsDict(document)
              /\ Get(document, "derivedStructData", None) = None

(* the record is {document: {derivedStructData: {title: <str>, ...}}} *)
WellFormed(record) ==
    /\ IsDict(record)
    /\ IsDict(Get(record, "document", None))
    /\ IsDict(Get(Get(record, "document", None), "derivedStructData", None))
    /\ IsStr(Get(Get(Get(record, "document", None), "derivedStructData", None),
                 "title", None))

(* the result list has 3 records: one lacks document.derivedStructData,    *)
(* the other two are well formed                                           *)
ThreeWithOneLacking ==
    /\ NonEmptyResults
    /\ Len(Results[2]) = 3
    /\ \E k \in 1..3 :
          /\ LacksDerived(Results[2][k])
          /\ \A j \in (1..3) \ {k} : WellFormed(Results[2][j])

RECURSIVE FormattedInOrder(_)
FormattedInOrder(records) ==
    IF Len(records) = 0 THEN <<>>
    ELSE LET details == fetch_appbuilder_details(records[1])
         IN  IF IsStr(details)
             THEN <<details[2]>> \o FormattedInOrder(Tail(records))
             ELSE FormattedInOrder(Tail(records))

(* C3: for a non-empty result list, before truncation the k-th numbered    *)
(* entry of the answer is the formatted details of the k-th result that    *)
(* formatted successfully, in list order.                                  *)
C3_EntriesArePositional ==
    (Returned /\ NonEmptyResults) =>
        appbuilders = FormattedInOrder(Results[2])

(* C4: on an empty result set (results is an empty list or the key is      *)
(* absent) run returns exactly the fixed sentinel string, with no template *)
(* around it and no numbered entry.                                        *)
C4_EmptyGivesSentinel ==
    (pc \in {"done", "failed"} /\ EmptyResults) =>
        /\ Returned
        /\ ret = Str("Google appbuilders did not find any appbuilders that match the description")
        /\ appbuilders = <<>>

(* run returned on a response without a results key *)
C4_Witness ==
    /\ Returned
    /\ EmptyResults
    /\ Results # List(<<>>)
    /\ IsStr(ret)

WeatherResponse == Dict(<< <<"results", List(<<WeatherRecord>>)>> >>)

(* C5, as stated: for the single result {title: "Weather API", desc:       *)
(* "hot"} and query "weather", the returned string contains                *)
(* "1. Weather API \n  \n desc : hot".                                     *)
C5_WeatherExample ==
    (Returned /\ response = WeatherResponse /\ query = "weather") =>
        Contains(ret[2], "1. Weather API \n  \n desc : hot")

(* C5, amended: for that result and query the returned string contains     *)
(* "1. Weather API \n  \n title : Weather API \n desc : hot": the          *)
(* flattened body lists every key of the record, title first.              *)
C5_WeatherExampleWithTitle ==
    (Returned /\ response = WeatherResponse /\ query = "weather") =>
        Contains(ret[2], "1. Weather API \n  \n title : Weather API \n desc : hot")

(* run returned on the example *)
C5_Witness ==
    /\ Returned
    /\ response = WeatherResponse
    /\ query = "weather"
    /\ Len(appbuilders) = 1

(* ---------------------------------------------------------------------- *)
(* Properties of format_array                                             *)
(* ---------------------------------------------------------------------- *)
FlattenReturned == faPc = "return"

(* the str values that occur in v, at any depth *)
RECURSIVE StringsIn(_)
StringsIn(v) ==
    CASE IsStr(v)  -> {v[2]}
      [] IsList(v) -> UNION {StringsIn(v[2][i]) : i \in 1..Len(v[2])}
      [] IsDict(v) -> UNION {StringsIn(v[2][i][2]) : i \in 1..Len(v[2])}
      [] OTHER     -> {}

HttpStringsIn(v) == {s \in StringsIn(v) : Contains(s, "http")}

IsHttpStr(v) == IsStr(v) /\ Contains(v[2], "http")

(* the number of places where sub occurs in s *)
Occurrences(s, sub) ==
    Cardinality({i \in 1..(Len(s) - Len(sub) + 1) :
                    SubSeq(s, i, i + Len(sub) - 1) = sub})

ClaimedValueText(value) ==
    IF IsStr(value) THEN value[2]
    ELSE IF IsDict(value) \/ IsList(value) THEN format_array(value)
    ELSE ""

(* the text the code puts after "key : " *)
StrValueText(value) == IF IsStr(value) THEN value[2] ELSE PyRepr(value)

(* the pairs of the keys of kvs, each pair as " \n key : <text>", text     *)
(* chosen by ValueText; a key whose str value holds "http" has no pair     *)
PairsText(kvs, ValueText(_)) ==
    Join("", [i \in 1..Len(kvs) |->
                 IF IsHttpStr(kvs[i][2]) THEN ""
                 ELSE " \n " \o kvs[i][1] \o " : " \o ValueText(kvs[i][2])])

(* C7, as stated: format_array on an object emits one "key : value" pair   *)
(* per key and recurses into non-string values: after "key : " comes       *)
(* format_array of the value when it is an object or an array, and the     *)
(* empty string for any other non-string value.                            *)
C7_ObjectRecursesIntoValues ==
    (FlattenReturned /\ IsDict(faArg)) =>
        faRet = PairsText(faArg[2], ClaimedValueText)

(* C7, amended: format_array on an object emits one "key : value" pair per *)
(* key whose value is not a str holding "http", and does not recurse: for  *)
(* a key whose value is not a string (object, array, number, null) the     *)
(* text after "key : " is Python's str(value) of that value, for instance  *)
(* {'k': 'v'}, ['a', 'b'], 42 or None, which is never format_array of it.  *)
C7_ObjectUsesStrOfValues ==
    (FlattenReturned /\ IsDict(faArg)) =>
        /\ faRet = PairsText(faArg[2], StrValueText)
        /\ \A i \in 1..Len(faArg[2]) :
              ~IsStr(faArg[2][i][2]) =>
                 /\ Contains(faRet, faArg[2][i][1] \o " : " \o PyRepr(faArg[2][i][2]))
                 /\ PyRepr(faArg[2][i][2]) # format_array(faArg[2][i][2])

(* format_array returned on an object with a non-empty object or array     *)
(* under one key and a number under another                                *)
C7_Witness ==
    /\ FlattenReturned
    /\ IsDict(faArg)
    /\ \E i, j \in 1..Len(faArg[2]) :
          /\ IsDict(faArg[2][i][2]) \/ IsList(faArg[2][i][2])
          /\ Len(faArg[2][i][2][2]) > 0
          /\ faArg[2][j][2][1] = "num"
    /\ faRet # PairsText(faArg[2], ClaimedValueText)

(* ---------------------------------------------------------------------- *)
(* Properties of the call chain                                           *)
(* ---------------------------------------------------------------------- *)

StructuralFailure(record) ==
    \/ ~IsDict(record)
    \/ LET document == Get(record, "document", Dict(<<>>))
       IN  \/ ~IsDict(document)
           \/ LET derivedStructData == Get(document, "derivedStructData", Dict(<<>>))
              IN  \/ ~IsDict(derivedStructData)
                  \/ ~IsStr(Get(derivedStructData, "title", Str("")))

(* C9: fetch_appbuilder_details and format_appbuilder_details never raise: *)
(* on a structural failure of the record they return None, and run omits   *)
(* the record from the numbered entries instead of failing.                *)
C9_StructuralFailuresGiveNone ==
    (pc \in {"done", "failed"} /\ NonEmptyResults) =>
        /\ Returned
        /\ IsStr(ret)
        /\ \A k \in 1..Len(Results[2]) :
              /\ ~IsRaise(fetch_appbuilder_details(Results[2][k]))
              /\ ~IsRaise(format_appbuilder_details(Results[2][k]))
              /\ ~IsRaise(format_appbuilder_details(
                              Get(Results[2][k], "document", Dict(<<>>))))
              /\ StructuralFailure(Results[2][k]) =>
                    fetch_appbuilder_details(Results[2][k]) = None
        /\ StructuralFailure(Results[2][1]) => appbuilders = <<>>
        /\ \A i \in 1..Len(appbuilders) :
              \E k \in 1..Len(Results[2]) :
                 /\ ~StructuralFailure(Results[2][k])
                 /\ Str(appbuilders[i]) = fetch_appbuilder_details(Results[2][k])

(* run returned the template on a list of at least 2 records of which the  *)
(* one it formats is not a mapping of the expected shape                   *)
C9_Witness ==
    /\ Returned
    /\ NonEmptyResults
    /\ Len(Results[2]) >= 2
    /\ StructuralFailure(Results[2][1])
    /\ appbuilders = <<>>
    /\ ret = Str(Template(""))

C10_State ==
    /\ nAuth = IF pc = "get_token" THEN nRun - 1 ELSE nRun
    /\ nPost <= nAuth
    /\ Len(log) <= 2
    /\ pc \in {"post", "format", "done"} => Len(log) >= 1 /\ log[1].outcome = "ok"
    /\ pc \in {"format", "done"} => Len(log) = 2
    /\ Len(log) >= 1 =>
          /\ log[1].kind = "auth"
          /\ log[1].outcome = "ok" => log[1].token = issued /\ token = issued
    /\ Len(log) = 2 =>
          /\ log[1].outcome = "ok"
          /\ log[2].kind = "post"
          /\ log[2].token = log[1].token
          /\ log[2].query = query
          /\ log[2].page_size = "2"
          /\ log[2].offset = 0
    /\ (pc \in {"done", "failed"} /\ response # Pending) =>
          /\ ret = RunTail(response).ret
          /\ appbuilders = RunTail(response).appbuilders

C10_Step ==
    /\ nAuth' \in {nAuth, nAuth + 1}
    /\ nPost' \in {nPost, nPost + 1}
    /\ nRun' = nRun + 1 => (token' = 0 /\ log' = <<>> /\ response' = Pending)
    /\ (pc = "get_token" /\ pc' = "post") =>
          /\ nAuth' = nAuth + 1
          /\ token' > issued
          /\ token' = issued'
    /\ (pc = "post" /\ pc' # "post") =>
          /\ nPost' = nPost + 1
          /\ token' = token

====
